---- MODULE Spec2Model ----
(***************************************************************************)
(* Model of the chunked upload engine of ksau-go: AzureClient.Upload and   *)
(* its helpers uploadChunk, createUploadSession and getFileID              *)
(* (package azure), with the progress callback of runUpload (package cmd). *)
(*                                                                         *)
(* One behaviour is one call of Upload.  The main goroutine and the single *)
(* worker goroutine are two processes with their own program counters      *)
(* (pc, wpc); they share chunkChan, errChan, uploadURL and totalUploaded.  *)
(* Every HTTP response, every local read result and the caller's           *)
(* parameters are chosen nondeterministically from small sets.             *)
(*                                                                         *)
(* SpecFair is Spec under weak fairness of the two goroutines.             *)
(*                                                                         *)
(* Further specifications cover code that runs outside Upload: SpecChunk   *)
(* calls uploadChunk with arbitrary arguments, SpecVerify runs             *)
(* verifyFileIntegrity (package cmd) with its hash-fetch retry loop,       *)
(* SpecQuota runs runQuota and SpecSelect runs selectRemoteAutomatically,  *)
(* each with one goroutine per remote and a WaitGroup.                     *)
(***************************************************************************)
EXTENDS Integers, Sequences, FiniteSets, TLC

\* ---------------------------------------------------------------- bounds
MaxFileSize == 3
MaxChunkSize == 2
MaxRetriesBound == 2
MaxHashRetries == 2
MaxRemotes == 3

\* ------------------------------------------------------ program constants
StatusOK == 200
StatusCreated == 201
StatusAccepted == 202
StatusConflict == 409
StatusRangeNotSatisfiable == 416

\* ---------------------------------------------------------- environment
\* A response body is modelled by the set of markers its text contains; the
\* markers are the two strings the code searches for.
Bodies == {{}, {"resourceModified"}, {"invalidRange"}}

\* Statuses a server may answer with: the ones the code names plus one other
\* 2xx (204), one 4xx (404) and one 5xx (500).
Statuses == {StatusOK, StatusCreated, StatusAccepted, 204, 404,
             StatusConflict, StatusRangeNotSatisfiable, 500}

\* What httpClient.Do hands back for a PUT or a POST: a transport error
\* (neterr) or a response with a status and a body.
HttpResponses ==
    {[neterr |-> TRUE, status |-> 0, body |-> {}]}
    \cup {[neterr |-> FALSE, status |-> s, body |-> b] : s \in Statuses, b \in Bodies}

\* What httpClient.Do hands back for the POST that creates a session: a
\* transport error, a status other than 200 with some text as its body, or a
\* 200 whose JSON body parses (and then carries an upload URL) or does not.
\* The model gives every session the server issues a fresh number as its
\* upload URL.
SessionResponses ==
    {[neterr |-> TRUE, status |-> 0, body |-> {}, parses |-> FALSE]}
    \cup {[neterr |-> FALSE, status |-> s, body |-> b, parses |-> FALSE] :
             s \in Statuses \ {StatusOK}, b \in Bodies}
    \cup {[neterr |-> FALSE, status |-> StatusOK, body |-> {}, parses |-> p] :
             p \in BOOLEAN}

\* What httpClient.Do hands back for the metadata GET: the JSON body of a 200
\* either fails to parse ("garbage"), parses with no id ("") or parses with
\* an id ("id1").
MetaBodies == {"garbage", "", "id1"}

MetaResponses ==
    {[neterr |-> TRUE, status |-> 0, meta |-> ""]}
    \cup {[neterr |-> FALSE, status |-> s, meta |-> ""] : s \in Statuses \ {StatusOK}}
    \cup {[neterr |-> FALSE, status |-> StatusOK, meta |-> m] : m \in MetaBodies}

\* The QuickXorHash values a file can have.
Hashes == {"AAA", "BBB"}

\* What httpClient.Do hands back for the metadata GET of GetQuickXorHash: the
\* JSON body of a 200 fails to parse ("garbage"), parses with no hash ("")
\* or parses with a hash.
HashResponses ==
    {[neterr |-> TRUE, status |-> 0, meta |-> ""]}
    \cup {[neterr |-> FALSE, status |-> s, meta |-> ""] : s \in Statuses \ {StatusOK}}
    \cup {[neterr |-> FALSE, status |-> StatusOK, meta |-> m] :
             m \in {"garbage", ""} \cup Hashes}

\* Results of file.ReadAt: the chunk was read, was read up to EOF, or failed.
ReadResults == {"ok", "eof", "err"}

NoErr == [tag |-> "nil", text |-> {}]

\* strings.Contains(err.Error(), m): an error is its leading tag and the set
\* of markers that occur anywhere in its message.
Contains(err, m) == m \in err.text

Min(a, b) == IF a < b THEN a ELSE b

\* ------------------------------------------------------- pure functions
\* uploadChunk, lines 327-373: validation, then one PUT, then the switch on
\* the status code.  sent tells whether httpClient.Do was called.
C7_uploadChunkNoValidation(chunkLen, start, end, totalSize, resp) ==
    IF resp.neterr
    THEN [sent |-> TRUE, ok |-> FALSE,
          err |-> [tag |-> "failed to upload chunk", text |-> {}]]
    ELSE [sent |-> TRUE, ok |-> resp.status \in {StatusCreated, StatusAccepted, StatusOK},
          err |-> IF resp.status \in {StatusCreated, StatusAccepted, StatusOK}
                  THEN NoErr ELSE [tag |-> "upload failed", text |-> resp.body]]

C8_uploadChunkNoConflictCase(chunkLen, start, end, totalSize, resp) ==
    IF start < 0 \/ end < start \/ end >= totalSize
    THEN [sent |-> FALSE, ok |-> FALSE,
          err |-> [tag |-> "invalid chunk range", text |-> {}]]
    ELSE IF chunkLen # end - start + 1
    THEN [sent |-> FALSE, ok |-> FALSE,
          err |-> [tag |-> "chunk size mismatch", text |-> {}]]
    ELSE IF resp.neterr
    THEN [sent |-> TRUE, ok |-> FALSE,
          err |-> [tag |-> "failed to upload chunk", text |-> {}]]
    ELSE IF resp.status \in {StatusCreated, StatusAccepted, StatusOK}
    THEN [sent |-> TRUE, ok |-> TRUE, err |-> NoErr]
    ELSE IF resp.status = StatusRangeNotSatisfiable
    THEN [sent |-> TRUE, ok |-> FALSE,
          err |-> [tag |-> "invalidRange", text |-> {"invalidRange"} \cup resp.body]]
    ELSE [sent |-> TRUE, ok |-> FALSE,
          err |-> [tag |-> "upload failed", text |-> resp.body]]

uploadChunk(chunkLen, start, end, totalSize, resp) ==
    IF start < 0 \/ end < start \/ end >= totalSize
    THEN [sent |-> FALSE, ok |-> FALSE,
          err |-> [tag |-> "invalid chunk range", text |-> {}]]
    ELSE IF chunkLen # end - start + 1
    THEN [sent |-> FALSE, ok |-> FALSE,
          err |-> [tag |-> "chunk size mismatch", text |-> {}]]
    ELSE IF resp.neterr
    THEN [sent |-> TRUE, ok |-> FALSE,
          err |-> [tag |-> "failed to upload chunk", text |-> {}]]
    ELSE IF resp.status \in {StatusCreated, StatusAccepted, StatusOK}
    THEN [sent |-> TRUE, ok |-> TRUE, err |-> NoErr]
    ELSE IF resp.status = StatusRangeNotSatisfiable
    THEN [sent |-> TRUE, ok |-> FALSE,
          err |-> [tag |-> "invalidRange", text |-> {"invalidRange"} \cup resp.body]]
    ELSE IF resp.status = StatusConflict
    THEN IF "resourceModified" \in resp.body
         THEN [sent |-> TRUE, ok |-> FALSE,
               err |-> [tag |-> "resourceModified", text |-> {"resourceModified"}]]
         ELSE [sent |-> TRUE, ok |-> FALSE,
               err |-> [tag |-> "conflict error", text |-> resp.body]]
    ELSE [sent |-> TRUE, ok |-> FALSE,
          err |-> [tag |-> "upload failed", text |-> resp.body]]

\* createUploadSession, lines 273-278: the body of the POST.
SessionRequest == [conflictBehavior |-> "replace"]

\* createUploadSession, lines 288-306: any transport error and any status
\* other than 200 is an error, the latter with the status and the body in
\* its message; so is a body that does not parse; otherwise the server's
\* upload URL is returned.  url tells whether an upload URL is returned.
C11_createUploadSessionBare(resp) ==
    IF resp.neterr
    THEN [ok |-> FALSE, url |-> FALSE,
          err |-> [tag |-> "failed to create upload session", status |-> 0, text |-> {}]]
    ELSE IF resp.status # StatusOK
    THEN [ok |-> FALSE, url |-> FALSE,
          err |-> [tag |-> "failed to create upload session, status",
                   status |-> 0, text |-> {}]]
    ELSE IF ~resp.parses
    THEN [ok |-> FALSE, url |-> FALSE,
          err |-> [tag |-> "failed to parse upload session response",
                   status |-> 0, text |-> {}]]
    ELSE [ok |-> TRUE, url |-> TRUE, err |-> [tag |-> "nil", status |-> 0, text |-> {}]]

createUploadSession(resp) ==
    IF resp.neterr
    THEN [ok |-> FALSE, url |-> FALSE,
          err |-> [tag |-> "failed to create upload session", status |-> 0, text |-> {}]]
    ELSE IF resp.status # StatusOK
    THEN [ok |-> FALSE, url |-> FALSE,
          err |-> [tag |-> "failed to create upload session, status",
                   status |-> resp.status, text |-> resp.body]]
    ELSE IF ~resp.parses
    THEN [ok |-> FALSE, url |-> FALSE,
          err |-> [tag |-> "failed to parse upload session response",
                   status |-> 0, text |-> {}]]
    ELSE [ok |-> TRUE, url |-> TRUE, err |-> [tag |-> "nil", status |-> 0, text |-> {}]]

\* The outcome of uploadChunk in the words of the specification.
Outcome(ok, e) ==
    IF ok THEN "Success"
    ELSE IF e.tag = "invalidRange" THEN "RangeNotSatisfiable"
    ELSE IF e.tag = "resourceModified" THEN "SessionExpired"
    ELSE "OtherFailure"

\* getFileID, lines 230-253.
C2_getFileIDNoEmptyCheck(resp) ==
    IF resp.neterr THEN [id |-> "", ok |-> FALSE]
    ELSE IF resp.status # StatusOK THEN [id |-> "", ok |-> FALSE]
    ELSE IF resp.meta = "garbage" THEN [id |-> "", ok |-> FALSE]
    ELSE [id |-> resp.meta, ok |-> TRUE]

getFileID(resp) ==
    IF resp.neterr THEN [id |-> "", ok |-> FALSE]
    ELSE IF resp.status # StatusOK THEN [id |-> "", ok |-> FALSE]
    ELSE IF resp.meta = "garbage" THEN [id |-> "", ok |-> FALSE]
    ELSE IF resp.meta = "" THEN [id |-> "", ok |-> FALSE]
    ELSE [id |-> resp.meta, ok |-> TRUE]

\* GetQuickXorHash: the token check, the GET, and the checks on the answer.
GetQuickXorHash(tokenOK, resp) ==
    IF ~tokenOK THEN [hash |-> "", ok |-> FALSE]
    ELSE IF resp.neterr THEN [hash |-> "", ok |-> FALSE]
    ELSE IF resp.status # StatusOK THEN [hash |-> "", ok |-> FALSE]
    ELSE IF resp.meta = "garbage" THEN [hash |-> "", ok |-> FALSE]
    ELSE IF resp.meta = "" THEN [hash |-> "", ok |-> FALSE]
    ELSE [hash |-> resp.meta, ok |-> TRUE]

\* verifyFileIntegrity, the comparison of the two hashes.
CompareHashes(localHash, remoteHash) ==
    IF localHash = remoteHash THEN "match" ELSE "mismatch"

\* Upload, line 117.
C25_NumChunksFloor(size, csize) == size \div csize

NumChunks(size, csize) == (size + csize - 1) \div csize

\* Upload, lines 133-136: the inclusive end of the chunk starting at start.
C6_ChunkEndUntruncated(start, csize, size) == start + csize - 1

ChunkEnd(start, csize, size) ==
    IF start + csize - 1 >= size THEN size - 1 ELSE start + csize - 1

\* Upload, lines 137 and 140: the length of the chunk read and sent.
C26_ActualChunkSizeShort(start, end) == end - start

ActualChunkSize(start, end) == end - start + 1

\* Upload, line 184: the condition of the producer loop.
C24_MoreChunksInclusive(s, size) == s <= size

MoreChunks(s, size) == s < size

\* Upload, lines 184-186 with 133-136: the ranges of a whole run of the
\* producer loop, each with the end the worker gives it.
RECURSIVE PlanFrom(_, _, _)
PlanFrom(s, size, csize) ==
    IF MoreChunks(s, size)
    THEN <<<<s, ChunkEnd(s, csize, size)>>>> \o PlanFrom(s + csize, size, csize)
    ELSE <<>>

PlannedRanges(size, csize) == PlanFrom(0, size, csize)

\* Upload, line 162: the errors after which a new session is requested.
C3_NeedsNewSessionNever(err) == FALSE

NeedsNewSession(err) ==
    Contains(err, "resourceModified") \/ Contains(err, "invalidRange")

\* Upload, lines 153-155: the new counter value, which is also the value
\* handed to the progress callback.
\* Lines 128-130: the number of worker goroutines Upload starts, whatever
\* params.ParallelChunks holds.
Workers(parallelChunks) == 1

\* Line 132: the worker receives from chunkChan, a FIFO channel.
C23_NextStartNewest(ch) == ch[Len(ch)]

NextStart(ch) == Head(ch)

\* Lines 143-144 and 177-180: where the worker goes on after it has sent a
\* chunk's error: to the head of the range loop.
C28_AfterErrorExit == "exit"

AfterError == "recv"

\* Line 169: a renewal that succeeded replaces the upload URL.
C21_RenewedURLStale(old, new) == old

RenewedURL(old, new) == new

C27_AddUploadedTwice(total, actualChunkSize) == total + 2 * actualChunkSize

C10_AddUploadedChunkOnly(total, actualChunkSize) == actualChunkSize

C9_AddUploadedForgotten(total, actualChunkSize) == total

AddUploaded(total, actualChunkSize) == total + actualChunkSize

\* Upload, lines 193-194: the receive from errChan, a FIFO channel, takes the
\* error that was sent first.
C20_FirstErrLatest(errs) == errs[Len(errs)]

FirstErr(errs) == Head(errs)

\* Upload, lines 193-203: the select on errChan and the final lookup.
C5_FinalResultLookupFirst(errs, resp) ==
    IF ~getFileID(resp).ok THEN [id |-> "", err |-> "failed to fetch file ID"]
    ELSE IF Len(errs) > 0 THEN [id |-> "", err |-> "failed to upload file"]
    ELSE [id |-> getFileID(resp).id, err |-> "nil"]

FinalResult(errs, resp) ==
    IF Len(errs) > 0 THEN [id |-> "", err |-> "failed to upload file"]
    ELSE IF ~getFileID(resp).ok THEN [id |-> "", err |-> "failed to fetch file ID"]
    ELSE [id |-> getFileID(resp).id, err |-> "nil"]

\* ---------------------------------------------------------------- state
VARIABLES
    fileSize,       \* fileInfo.Size(), line 112
    chunkSize,      \* params.ChunkSize, line 116
    maxRetries,     \* params.MaxRetries
    hasCallback,    \* params.ProgressCallback != nil
    pc,             \* position of the goroutine running Upload
    wpc,            \* position of the worker goroutine, lines 130-181
    prodStart,      \* loop variable of the producer loop, line 184
    numChunks,      \* line 117: the capacity of both channels
    chunkChan,      \* buffered channel of chunk starts, line 121
    chanClosed,     \* close(chunkChan), line 187
    errChan,        \* buffered channel of chunk errors, line 122
    uploadURL,      \* the current session: the number of the session issued
    sessions,       \* number of sessions the server has issued so far
    totalUploaded,  \* line 125
    progressMu,     \* line 126: "free" or "worker"
    start,          \* worker: start of the chunk in hand, line 132
    end,            \* worker: its inclusive end, lines 133-136
    retry,          \* worker: loop variable of the retry loop, line 148
    err,            \* worker: err of line 149, while the loop body uses it
    result,         \* what Upload returned: [id, err, cause]
    \* history variables: they record what happened and guard nothing
    ranges,         \* the ranges the worker derived, in order
    attempts,       \* per chunk start: PUT requests sent for it
    acked,          \* starts of the chunks whose PUT the server accepted
    ackedURL,       \* per chunk start: the session that accepted it, or 0
    ackedBytes,     \* sum of the lengths of the accepted chunks
    firstTryOK,     \* starts of the chunks whose first PUT was accepted
    sinkLog,        \* the values the progress callback was invoked with
    inSink,         \* the progress callback is running
    slept,          \* a RetryDelay sleep has taken place
    nExpired,       \* PUTs answered with SessionExpired (saturating)
    soleExpired,    \* <<start, retry>> of that PUT while it is the only fault
    otherFaults,    \* other failed requests and failed reads (saturating)
    fidCalled,      \* getFileID was called
    firstSession,   \* the first call of createUploadSession: response, result
    policies,       \* the conflict behaviours sent in session requests
    reads,          \* per chunk start: calls of file.ReadAt for it
    readFailed,     \* starts of the chunks whose read failed
    since,          \* what followed the previous PUT of the chunk in hand
    call,           \* a direct call of uploadChunk: arguments and result
    \* verifyFileIntegrity
    verifier,       \* the source file whose verifyFileIntegrity runs
    hashRetries,    \* the --hash-retries flag
    trueHash,       \* the QuickXorHash of the local file
    vpc,            \* position in verifyFileIntegrity
    hashTry,        \* loop variable of the fetch loop (i, retry)
    fileHash,       \* the remote hash held by verifyFileIntegrity
    fetchErr,       \* err after the fetch loop is non-nil
    localHash,      \* the local hash, once computed
    report,         \* what verifyFileIntegrity told the user in the end
    vlog,           \* history: its fetches, sleeps and comparisons, in order
    \* runQuota and selectRemoteAutomatically
    availRemotes,   \* len(availRemotes): the remotes are numbered 1..availRemotes
    nextRemote,     \* the remote the spawning loop comes to next
    gpc,            \* per remote: position of its goroutine, quota it fetched
    wgCount,        \* the counter of the WaitGroup
    mpc,            \* position of the goroutine running the command
    remoteAndSpace, \* the map of selectRemoteAutomatically; Absent: no entry
    selection       \* what selectRemoteAutomatically returned

params == <<fileSize, chunkSize, maxRetries, hasCallback>>
mainVars == <<pc, prodStart, numChunks, chunkChan, chanClosed, result, fidCalled>>
workerVars == <<wpc, start, end, retry, err>>
shared == <<errChan, uploadURL, sessions, totalUploaded, progressMu>>
putHist == <<attempts, acked, ackedURL, ackedBytes, firstTryOK>>
sinkHist == <<sinkLog, inSink>>
faultHist == <<nExpired, soleExpired, otherFaults>>
sessHist == <<firstSession, policies>>
readHist == <<reads, readFailed>>
gapHist == <<since>>
history == <<ranges, putHist, sinkHist, slept, faultHist, sessHist, readHist, gapHist>>

verifyVars == <<verifier, hashRetries, trueHash, vpc, hashTry, fileHash, fetchErr,
                localHash, report, vlog>>
fanVars == <<availRemotes, nextRemote, gpc, wgCount, mpc, remoteAndSpace, selection>>
direct == <<call, verifyVars, fanVars>>

vars == <<params, mainVars, workerVars, shared, history, direct>>

\* The fault counters only tell 0, 1 and "more": they saturate at 2.
Inc(n) == Min(n + 1, 2)

\* A request other than a PUT, or a local read, failed.
OtherFault ==
    /\ otherFaults' = Inc(otherFaults)
    /\ soleExpired' = <<>>
    /\ UNCHANGED nExpired

NoCall == [chunkLen |-> 0, start |-> 0, end |-> 0, totalSize |-> 0,
           returned |-> FALSE, status |-> 0, body |-> {}, neterr |-> FALSE,
           sent |-> FALSE, ok |-> FALSE, err |-> NoErr]

NoResult == [id |-> "", err |-> "none", cause |-> <<>>]

NoSession == [called |-> FALSE, resp |-> [neterr |-> FALSE, status |-> 0,
                                          body |-> {}, parses |-> FALSE],
              ret |-> [ok |-> FALSE, url |-> FALSE,
                       err |-> [tag |-> "nil", status |-> 0, text |-> {}]]]

\* No PUT of the chunk in hand is waiting for its retry.
NoSince == [outcome |-> "none", url |-> 0, renewal |-> "none", slept |-> FALSE]

Quiet ==
    /\ pc = "token" /\ wpc = "none" /\ prodStart = 0 /\ numChunks = 0
    /\ chunkChan = <<>> /\ chanClosed = FALSE /\ errChan = <<>>
    /\ uploadURL = 0 /\ sessions = 0 /\ totalUploaded = 0
    /\ progressMu = "free" /\ start = 0 /\ end = 0 /\ retry = 0 /\ err = NoErr
    /\ result = NoResult /\ ranges = <<>>
    /\ attempts = [s \in 0..MaxFileSize |-> 0]
    /\ acked = {} /\ ackedBytes = 0 /\ firstTryOK = {}
    /\ ackedURL = [s \in 0..MaxFileSize |-> 0]
    /\ sinkLog = <<>> /\ inSink = FALSE /\ slept = FALSE
    /\ nExpired = 0 /\ soleExpired = <<>> /\ otherFaults = 0
    /\ fidCalled = FALSE
    /\ firstSession = NoSession /\ policies = {}
    /\ reads = [s \in 0..MaxFileSize |-> 0] /\ readFailed = {}
    /\ since = NoSince

\* verifyFileIntegrity is not running.
VerifyIdle ==
    /\ verifier = "none" /\ hashRetries = 0 /\ trueHash = "" /\ vpc = "idle"
    /\ hashTry = 0 /\ fileHash = "" /\ fetchErr = FALSE /\ localHash = ""
    /\ report = "none" /\ vlog = <<>>

Absent == -1

NoSelection == [remote |-> 0, err |-> "none"]

NotStarted == [at |-> "none", remaining |-> 0]

\* No goroutine has been started for any remote.
FanQuiet ==
    /\ nextRemote = 1 /\ wgCount = 0
    /\ gpc = [r \in 1..MaxRemotes |-> NotStarted]
    /\ remoteAndSpace = [r \in 1..MaxRemotes |-> Absent]
    /\ selection = NoSelection

\* Neither runQuota nor selectRemoteAutomatically is running.
FanIdle == availRemotes = 0 /\ mpc = "idle" /\ FanQuiet

\* The state when Upload is entered: any file, any parameters.
Init ==
    /\ fileSize \in 0..MaxFileSize
    /\ chunkSize \in 1..MaxChunkSize
    /\ maxRetries \in 0..MaxRetriesBound
    /\ hasCallback \in BOOLEAN
    /\ Quiet
    /\ call = NoCall
    /\ VerifyIdle
    /\ FanIdle

\* ------------------------------------------------ the goroutine of Upload
Return(e) ==
    /\ pc' = "done"
    /\ result' = [id |-> "", err |-> e, cause |-> <<>>]

\* Lines 89-91: EnsureTokenValid.
EnsureToken ==
    /\ pc = "token"
    /\ \E ok \in BOOLEAN :
        IF ok
        THEN pc' = "session" /\ UNCHANGED <<result, faultHist>>
        ELSE Return("token") /\ OtherFault
    /\ UNCHANGED <<params, prodStart, numChunks, chunkChan, chanClosed, fidCalled,
                   workerVars, shared, ranges, putHist, sinkHist, slept, sessHist,
                   readHist, gapHist, direct>>

\* Lines 94-98: the first upload session.
FirstSession ==
    /\ pc = "session"
    /\ policies' = policies \cup {SessionRequest.conflictBehavior}
    /\ \E resp \in SessionResponses :
        /\ firstSession' = [called |-> TRUE, resp |-> resp,
                            ret |-> createUploadSession(resp)]
        /\ IF createUploadSession(resp).ok
           THEN /\ sessions' = sessions + 1
                /\ uploadURL' = sessions + 1
                /\ pc' = "open"
                /\ UNCHANGED <<result, faultHist>>
           ELSE /\ Return("failed to create upload session")
                /\ OtherFault
                /\ UNCHANGED <<sessions, uploadURL>>
    /\ UNCHANGED <<params, prodStart, numChunks, chunkChan, chanClosed, fidCalled,
                   workerVars, errChan, totalUploaded, progressMu, ranges, putHist,
                   sinkHist, slept, readHist, gapHist, direct>>

\* Lines 101-122 and 129-130: open and stat the file, size the channels,
\* start the worker.
OpenFile ==
    /\ pc = "open"
    /\ \E opened \in BOOLEAN, statted \in BOOLEAN :
        IF opened /\ statted
        THEN /\ numChunks' = NumChunks(fileSize, chunkSize)
             /\ wpc' = "recv"
             /\ pc' = "produce"
             /\ UNCHANGED <<result, faultHist>>
        ELSE /\ Return(IF opened THEN "failed to get file info" ELSE "failed to open file")
             /\ OtherFault
             /\ UNCHANGED <<numChunks, wpc>>
    /\ UNCHANGED <<params, prodStart, chunkChan, chanClosed, fidCalled, start, end,
                   retry, err, shared, ranges, putHist, sinkHist, slept, sessHist,
                   readHist, gapHist, direct>>

\* Lines 184-186: one send on chunkChan; it blocks while the buffer is full.
Produce ==
    /\ pc = "produce"
    /\ MoreChunks(prodStart, fileSize)
    /\ Len(chunkChan) < numChunks
    /\ chunkChan' = Append(chunkChan, prodStart)
    /\ prodStart' = prodStart + chunkSize
    /\ UNCHANGED <<params, pc, numChunks, chanClosed, result, fidCalled, workerVars,
                   shared, history, direct>>

\* Line 187.
CloseChan ==
    /\ pc = "produce"
    /\ ~MoreChunks(prodStart, fileSize)
    /\ chanClosed' = TRUE
    /\ pc' = "wait"
    /\ UNCHANGED <<params, prodStart, numChunks, chunkChan, result, fidCalled,
                   workerVars, shared, history, direct>>

\* Line 190.
Wait ==
    /\ pc = "wait"
    /\ wpc = "exit"
    /\ pc' = "check"
    /\ UNCHANGED <<params, prodStart, numChunks, chunkChan, chanClosed, result,
                   fidCalled, workerVars, shared, history, direct>>

\* Lines 193-203.
Check ==
    /\ pc = "check"
    /\ \E r \in {[fin |-> FinalResult(errChan, resp), found |-> getFileID(resp).ok] :
                     resp \in MetaResponses} :
        /\ result' = [id |-> r.fin.id,
                      err |-> r.fin.err,
                      cause |-> IF Len(errChan) > 0 THEN <<FirstErr(errChan)>> ELSE <<>>]
        /\ fidCalled' = (Len(errChan) = 0)
        /\ IF Len(errChan) = 0 /\ ~r.found
           THEN OtherFault ELSE UNCHANGED faultHist
    /\ errChan' = IF Len(errChan) > 0 THEN Tail(errChan) ELSE errChan
    /\ pc' = "done"
    /\ UNCHANGED <<params, prodStart, numChunks, chunkChan, chanClosed, workerVars,
                   uploadURL, sessions, totalUploaded, progressMu, ranges, putHist,
                   sinkHist, slept, sessHist, readHist, gapHist, direct>>

\* ------------------------------------------------ the worker goroutine
\* errChan <- e (lines 143 and 177): the send blocks for ever when the buffer
\* is full, since errChan is read only after wg.Wait().
SendErr(e, next) ==
    IF Len(errChan) < numChunks
    THEN errChan' = Append(errChan, e) /\ wpc' = next
    ELSE errChan' = errChan /\ wpc' = "blocked"

\* Line 132: take the next start from chunkChan, or leave the loop when
\* the channel is closed and drained; lines 133-137: the chunk's range.
Recv ==
    /\ wpc = "recv"
    /\ \/ /\ Len(chunkChan) > 0
          /\ start' = NextStart(chunkChan)
          /\ end' = ChunkEnd(NextStart(chunkChan), chunkSize, fileSize)
          /\ chunkChan' = Tail(chunkChan)
          /\ ranges' = Append(ranges, <<NextStart(chunkChan),
                                        ChunkEnd(NextStart(chunkChan), chunkSize, fileSize)>>)
          /\ wpc' = "read"
       \/ /\ Len(chunkChan) = 0 /\ chanClosed
          /\ wpc' = "exit"
          /\ UNCHANGED <<start, end, chunkChan, ranges>>
    /\ UNCHANGED <<params, pc, prodStart, numChunks, chanClosed, result, fidCalled,
                   retry, err, shared, putHist, sinkHist, slept, faultHist, sessHist,
                   readHist, gapHist, direct>>

\* Lines 140-148: read the chunk; a read error other than EOF is sent to
\* errChan and the worker goes on with the next chunk.  Otherwise the retry
\* loop is entered with retry = 0, if 0 < MaxRetries.
ReadChunk ==
    /\ wpc = "read"
    /\ reads' = [reads EXCEPT ![start] = @ + 1]
    /\ \E r \in ReadResults :
        IF r = "err"
        THEN /\ SendErr([start |-> start, what |-> "read"], AfterError)
             /\ readFailed' = readFailed \cup {start}
             /\ OtherFault
             /\ UNCHANGED retry
        ELSE /\ retry' = 0
             /\ wpc' = IF 0 < maxRetries THEN "put" ELSE "recv"
             /\ UNCHANGED <<errChan, faultHist, readFailed>>
    /\ UNCHANGED <<params, mainVars, start, end, err, uploadURL, sessions,
                   totalUploaded, progressMu, ranges, putHist, sinkHist, slept,
                   sessHist, gapHist, direct>>

\* Lines 149-150 and 161-178: one call of uploadChunk and the branch taken
\* on its result.
Put ==
    /\ wpc = "put"
    /\ \E r \in {uploadChunk(ActualChunkSize(start, end), start, end, fileSize, resp) :
                     resp \in HttpResponses} :
        /\ attempts' = IF r.sent THEN [attempts EXCEPT ![start] = @ + 1] ELSE attempts
        /\ since' = IF ~r.ok /\ retry < maxRetries - 1
                     THEN [outcome |-> Outcome(r.ok, r.err), url |-> uploadURL,
                           renewal |-> "none", slept |-> FALSE]
                     ELSE NoSince
        /\ IF r.ok
           THEN /\ acked' = acked \cup {start}
                /\ ackedURL' = [ackedURL EXCEPT ![start] = uploadURL]
                /\ ackedBytes' = ackedBytes + (end - start + 1)
                /\ firstTryOK' = IF retry = 0 THEN firstTryOK \cup {start} ELSE firstTryOK
                /\ wpc' = "lock"
                /\ UNCHANGED <<errChan, retry, err, faultHist>>
           ELSE /\ UNCHANGED <<acked, ackedURL, ackedBytes, firstTryOK>>
                /\ IF r.err.tag = "resourceModified"
                   THEN /\ nExpired' = Inc(nExpired)
                        /\ soleExpired' = IF nExpired = 0 /\ otherFaults = 0
                                          THEN <<start, retry>> ELSE <<>>
                        /\ UNCHANGED otherFaults
                   ELSE OtherFault
                /\ IF retry < maxRetries - 1
                   THEN /\ wpc' = IF NeedsNewSession(r.err) THEN "renew" ELSE "sleep"
                        /\ err' = r.err
                        /\ UNCHANGED <<errChan, retry>>
                   ELSE /\ SendErr([start |-> start, what |-> "upload"], AfterError)
                        /\ retry' = retry + 1
                        /\ UNCHANGED err
    /\ UNCHANGED <<params, mainVars, start, end, uploadURL, sessions, totalUploaded,
                   progressMu, ranges, sinkHist, slept, sessHist, readHist, direct>>

\* Lines 164-170: a new upload session; when it cannot be created the loop
\* continues at once (retry++), with the old upload URL.
Renew ==
    /\ wpc = "renew"
    /\ policies' = policies \cup {SessionRequest.conflictBehavior}
    /\ \E created \in {createUploadSession(resp).ok : resp \in SessionResponses} :
        IF created
        THEN /\ sessions' = sessions + 1
             /\ uploadURL' = RenewedURL(uploadURL, sessions + 1)
             /\ wpc' = "sleep"
             /\ since' = [since EXCEPT !.renewal = "created"]
             /\ UNCHANGED <<retry, err, faultHist>>
        ELSE /\ retry' = retry + 1
             /\ err' = NoErr
             /\ wpc' = "put"
             /\ since' = [since EXCEPT !.renewal = "failed"]
             /\ OtherFault
             /\ UNCHANGED <<sessions, uploadURL>>
    /\ UNCHANGED <<params, mainVars, start, end, errChan, totalUploaded,
                   progressMu, ranges, putHist, sinkHist, slept, firstSession,
                   readHist, direct>>

\* Lines 173-175: the retry delay, then retry++.
Sleep ==
    /\ wpc = "sleep"
    /\ slept' = TRUE
    /\ since' = [since EXCEPT !.slept = TRUE]
    /\ retry' = retry + 1
    /\ err' = NoErr
    /\ wpc' = "put"
    /\ UNCHANGED <<params, mainVars, start, end, shared, ranges, putHist, sinkHist,
                   faultHist, sessHist, readHist, direct>>

\* Line 152.
LockProgress ==
    /\ wpc = "lock"
    /\ progressMu = "free"
    /\ progressMu' = "worker"
    /\ wpc' = "update"
    /\ UNCHANGED <<params, mainVars, start, end, retry, err, errChan, uploadURL,
                   sessions, totalUploaded, history, direct>>

\* Lines 153-156: add the chunk's length and hand the new total to the
\* progress callback, if there is one.
UpdateProgress ==
    /\ wpc = "update"
    /\ totalUploaded' = AddUploaded(totalUploaded, ActualChunkSize(start, end))
    /\ IF hasCallback
       THEN /\ sinkLog' = Append(sinkLog, AddUploaded(totalUploaded, ActualChunkSize(start, end)))
            /\ inSink' = TRUE
            /\ wpc' = "callback"
       ELSE /\ wpc' = "unlock"
            /\ UNCHANGED <<sinkLog, inSink>>
    /\ UNCHANGED <<params, mainVars, start, end, retry, err, errChan, uploadURL,
                   sessions, progressMu, ranges, putHist, slept, faultHist, sessHist,
                   readHist, gapHist, direct>>

\* runUpload's progressCallback returns.
CallbackReturn ==
    /\ wpc = "callback"
    /\ inSink' = FALSE
    /\ wpc' = "unlock"
    /\ UNCHANGED <<params, mainVars, start, end, retry, err, shared, ranges,
                   putHist, sinkLog, slept, faultHist, sessHist, readHist, gapHist,
                   direct>>

\* Lines 157-158: unlock and break out of the retry loop.
UnlockProgress ==
    /\ wpc = "unlock"
    /\ progressMu' = "free"
    /\ wpc' = "recv"
    /\ UNCHANGED <<params, mainVars, start, end, retry, err, errChan, uploadURL,
                   sessions, totalUploaded, history, direct>>

Next ==
    \/ EnsureToken \/ FirstSession \/ OpenFile \/ Produce \/ CloseChan \/ Wait \/ Check
    \/ Recv \/ ReadChunk \/ Put \/ Renew \/ Sleep
    \/ LockProgress \/ UpdateProgress \/ CallbackReturn \/ UnlockProgress

Spec == Init /\ [][Next]_vars

\* The steps of the goroutine running Upload and those of the worker.
MainNext ==
    EnsureToken \/ FirstSession \/ OpenFile \/ Produce \/ CloseChan \/ Wait \/ Check

WorkerNext ==
    \/ Recv \/ ReadChunk \/ Put \/ Renew \/ Sleep
    \/ LockProgress \/ UpdateProgress \/ CallbackReturn \/ UnlockProgress

\* Upload under the scheduling Go gives it: a goroutine that can take a step
\* takes one in the end.  Every HTTP call, file operation, sleep and
\* callback is a step of the model, so each of them returns.
SpecFair == Spec /\ WF_vars(MainNext) /\ WF_vars(WorkerNext)

\* ------------------------------------------- uploadChunk called directly
\* A second specification: uploadChunk is called once with arbitrary
\* arguments, also ones Upload never passes.  Upload itself does not run.
ArgRange == -1..MaxFileSize + 1

InitChunk ==
    /\ fileSize = 0 /\ chunkSize = 1 /\ maxRetries = 0 /\ hasCallback = FALSE
    /\ Quiet
    /\ \E l \in 0..MaxFileSize + 1, s \in ArgRange, e \in ArgRange, t \in 0..MaxFileSize + 1 :
        call = [NoCall EXCEPT !.chunkLen = l, !.start = s, !.end = e, !.totalSize = t]
    /\ VerifyIdle
    /\ FanIdle

\* Lines 327-373 on the arguments in call.  The response is recorded only
\* when a request was sent: without a request there is none.
CallUploadChunk ==
    /\ ~call.returned
    /\ \E resp \in HttpResponses :
        LET r == uploadChunk(call.chunkLen, call.start, call.end, call.totalSize, resp) IN
        call' = [call EXCEPT !.returned = TRUE,
                             !.sent = r.sent, !.ok = r.ok, !.err = r.err,
                             !.neterr = r.sent /\ resp.neterr,
                             !.status = IF r.sent THEN resp.status ELSE 0,
                             !.body = IF r.sent THEN resp.body ELSE {}]
    /\ UNCHANGED <<params, mainVars, workerVars, shared, history, verifyVars, fanVars>>

NextChunk == CallUploadChunk

SpecChunk == InitChunk /\ [][NextChunk]_vars

\* ------------------------------------------------- verifyFileIntegrity
\* A third specification: one call of verifyFileIntegrity, as runUpload makes
\* it after a successful Upload.  The repository holds the function twice:
\* in src/unnamed/part_009 it has the fetch loop in its body and hashes the
\* local file afterwards; in src/cmd/utils.go it hashes the local file first
\* and fetches through getQuickXorHashWithRetry.  verifier tells which runs.
Sources == {"part_009", "cmd/utils.go"}

InitVerify ==
    /\ fileSize = 0 /\ chunkSize = 1 /\ maxRetries = 0 /\ hasCallback = FALSE
    /\ Quiet
    /\ call = NoCall
    /\ verifier \in Sources
    /\ hashRetries \in 0..MaxHashRetries
    /\ trueHash \in Hashes
    /\ vpc = IF verifier = "part_009" THEN "loop" ELSE "local"
    /\ hashTry = 0 /\ fileHash = "" /\ fetchErr = FALSE /\ localHash = ""
    /\ report = "none" /\ vlog = <<>>
    /\ FanIdle

uploadVars == <<params, mainVars, workerVars, shared, history, call, fanVars>>

\* part_009, lines 97-106: one iteration of the fetch loop, up to the sleep.
FetchHash ==
    /\ verifier = "part_009" /\ vpc = "loop" /\ hashTry < hashRetries
    /\ \E r \in {GetQuickXorHash(t, resp) : t \in BOOLEAN, resp \in HashResponses} :
        /\ fileHash' = r.hash
        /\ fetchErr' = ~r.ok
        /\ vlog' = Append(vlog, IF r.ok THEN "fetched" ELSE "fetch failed")
        /\ IF r.ok THEN vpc' = "after" /\ hashTry' = hashTry
           ELSE IF hashTry < hashRetries - 1 THEN vpc' = "sleep" /\ hashTry' = hashTry
           ELSE vpc' = "loop" /\ hashTry' = hashTry + 1
    /\ UNCHANGED <<uploadVars, verifier, hashRetries, trueHash, localHash, report>>

\* part_009, line 104: time.Sleep(hashRetryDelay), then the loop's i++.
HashRetrySleep ==
    /\ verifier = "part_009" /\ vpc = "sleep"
    /\ vlog' = Append(vlog, "sleep")
    /\ hashTry' = hashTry + 1
    /\ vpc' = "loop"
    /\ UNCHANGED <<uploadVars, verifier, hashRetries, trueHash, fileHash, fetchErr,
                   localHash, report>>

\* part_009, lines 108-132: after the loop, give up when err is set;
\* otherwise open the local file and hash it.
LocalHash ==
    /\ verifier = "part_009"
    /\ vpc = "after" \/ (vpc = "loop" /\ ~(hashTry < hashRetries))
    /\ IF fetchErr
       THEN /\ report' = "warning: could not verify"
            /\ vpc' = "done"
            /\ UNCHANGED localHash
       ELSE \E local \in {"hashed", "open failed", "copy failed"} :
              IF local = "hashed"
              THEN localHash' = trueHash /\ vpc' = "compare" /\ UNCHANGED report
              ELSE /\ report' = IF local = "open failed"
                                THEN "warning: could not open local file"
                                ELSE "warning: could not calculate file hash"
                   /\ vpc' = "done"
                   /\ UNCHANGED localHash
    /\ UNCHANGED <<uploadVars, verifier, hashRetries, trueHash, hashTry, fileHash,
                   fetchErr, vlog>>

\* cmd/utils.go, lines 106-110: QuickXorHash(filePath) comes first.
QuickXorHash ==
    /\ verifier = "cmd/utils.go" /\ vpc = "local"
    /\ \E hashed \in BOOLEAN :
        IF hashed
        THEN localHash' = trueHash /\ vpc' = "loop" /\ UNCHANGED report
        ELSE /\ report' = "warning: could not calculate file hash"
             /\ vpc' = "done"
             /\ UNCHANGED localHash
    /\ UNCHANGED <<uploadVars, verifier, hashRetries, trueHash, hashTry, fileHash,
                   fetchErr, vlog>>

\* cmd/utils.go, lines 127-136: one iteration of getQuickXorHashWithRetry;
\* every failed fetch is followed by a sleep.
getQuickXorHashWithRetry ==
    /\ verifier = "cmd/utils.go" /\ vpc = "loop" /\ hashTry < hashRetries
    /\ \E r \in {GetQuickXorHash(t, resp) : t \in BOOLEAN, resp \in HashResponses} :
        IF r.ok
        THEN /\ fileHash' = r.hash
             /\ vlog' = Append(vlog, "fetched")
             /\ vpc' = "compare"
             /\ UNCHANGED hashTry
        ELSE /\ vlog' = vlog \o <<"fetch failed", "sleep">>
             /\ hashTry' = hashTry + 1
             /\ vpc' = "loop"
             /\ UNCHANGED fileHash
    /\ UNCHANGED <<uploadVars, verifier, hashRetries, trueHash, fetchErr, localHash, report>>

\* cmd/utils.go, lines 138 and 113-116: no retry is left.
RetriesExhausted ==
    /\ verifier = "cmd/utils.go" /\ vpc = "loop" /\ ~(hashTry < hashRetries)
    /\ fetchErr' = TRUE
    /\ report' = "warning: could not verify"
    /\ vpc' = "done"
    /\ UNCHANGED <<uploadVars, verifier, hashRetries, trueHash, hashTry, fileHash,
                   localHash, vlog>>

\* part_009, lines 137-141, and cmd/utils.go, lines 118-122.
Compare ==
    /\ vpc = "compare"
    /\ report' = CompareHashes(localHash, fileHash)
    /\ vlog' = Append(vlog, "compared")
    /\ vpc' = "done"
    /\ UNCHANGED <<uploadVars, verifier, hashRetries, trueHash, hashTry, fileHash, fetchErr,
                   localHash>>

NextVerify ==
    \/ FetchHash \/ HashRetrySleep \/ LocalHash
    \/ QuickXorHash \/ getQuickXorHashWithRetry \/ RetriesExhausted
    \/ Compare

SpecVerify == InitVerify /\ [][NextVerify]_vars

\* ---------------------------------------------------------------- runQuota
\* src/cmd/quota.go, lines 41-63: one goroutine per remote, and a WaitGroup
\* the command waits on.  Upload and verifyFileIntegrity do not run.
Remotes == 1..availRemotes

otherVars == <<params, mainVars, workerVars, shared, history, call, verifyVars>>

FanStart(first) ==
    /\ fileSize = 0 /\ chunkSize = 1 /\ maxRetries = 0 /\ hasCallback = FALSE
    /\ Quiet
    /\ call = NoCall
    /\ VerifyIdle
    /\ availRemotes \in 0..MaxRemotes
    /\ mpc = first
    /\ FanQuiet

InitQuota == FanStart("quota")

\* Lines 43-45: wg.Add(1) and the go statement for the next remote.
QuotaSpawn ==
    /\ mpc = "quota"
    /\ nextRemote <= availRemotes
    /\ wgCount' = wgCount + 1
    /\ gpc' = [gpc EXCEPT ![nextRemote].at = "init"]
    /\ nextRemote' = nextRemote + 1
    /\ UNCHANGED <<otherVars, availRemotes, mpc, remoteAndSpace, selection>>

\* Lines 46-50: on an error the goroutine returns; wg.Done is not called.
QuotaInitClient(r) ==
    /\ gpc[r].at = "init"
    /\ \E ok \in BOOLEAN :
        gpc' = [gpc EXCEPT ![r].at = IF ok THEN "fetch" ELSE "returned"]
    /\ UNCHANGED <<otherVars, availRemotes, nextRemote, wgCount, mpc, remoteAndSpace,
                   selection>>

\* Lines 52-56: the same for GetDriveQuota.
QuotaFetch(r) ==
    /\ gpc[r].at = "fetch"
    /\ \E ok \in BOOLEAN :
        gpc' = [gpc EXCEPT ![r].at = IF ok THEN "display" ELSE "returned"]
    /\ UNCHANGED <<otherVars, availRemotes, nextRemote, wgCount, mpc, remoteAndSpace,
                   selection>>

\* Lines 58-60: the quota is displayed, then wg.Done.
QuotaDisplay(r) ==
    /\ gpc[r].at = "display"
    /\ gpc' = [gpc EXCEPT ![r].at = "returned"]
    /\ wgCount' = wgCount - 1
    /\ UNCHANGED <<otherVars, availRemotes, nextRemote, mpc, remoteAndSpace, selection>>

\* Line 63: wg.Wait returns when the counter is zero, and runQuota returns.
QuotaWait ==
    /\ mpc = "quota"
    /\ nextRemote > availRemotes
    /\ wgCount = 0
    /\ mpc' = "returned"
    /\ UNCHANGED <<otherVars, availRemotes, nextRemote, gpc, wgCount, remoteAndSpace,
                   selection>>

QuotaGoroutine(r) == QuotaInitClient(r) \/ QuotaFetch(r) \/ QuotaDisplay(r)

QuotaMain == QuotaSpawn \/ QuotaWait

NextQuota ==
    \/ QuotaSpawn
    \/ QuotaWait
    \/ \E r \in Remotes : QuotaInitClient(r)
    \/ \E r \in Remotes : QuotaFetch(r)
    \/ \E r \in Remotes : QuotaDisplay(r)

SpecQuota == InitQuota /\ [][NextQuota]_vars

\* runQuota under Go's scheduling: every goroutine that can take a step
\* takes one in the end; the HTTP client has a timeout, so each call returns.
SpecQuotaFair ==
    /\ SpecQuota
    /\ WF_vars(QuotaMain)
    /\ \A r \in 1..MaxRemotes : WF_vars(QuotaGoroutine(r))

\* ------------------------------------------------ selectRemoteAutomatically
\* part_009, lines 166-205.
Spaces == 0..2

InitSelect == FanStart("select")

\* The process has not died of a fatal runtime error.
Alive == mpc # "fatal"

\* Lines 170-172: wg.Add(1) and the go statement for the next remote.
SelectSpawn ==
    /\ mpc = "select"
    /\ nextRemote <= availRemotes
    /\ wgCount' = wgCount + 1
    /\ gpc' = [gpc EXCEPT ![nextRemote].at = "init"]
    /\ nextRemote' = nextRemote + 1
    /\ UNCHANGED <<otherVars, availRemotes, mpc, remoteAndSpace, selection>>

\* Lines 173-177: on an error the goroutine returns, and the deferred
\* wg.Done runs.
SelectInitClient(r) ==
    /\ Alive
    /\ gpc[r].at = "init"
    /\ \E ok \in BOOLEAN :
        IF ok
        THEN gpc' = [gpc EXCEPT ![r].at = "fetch"] /\ UNCHANGED wgCount
        ELSE gpc' = [gpc EXCEPT ![r].at = "returned"] /\ wgCount' = wgCount - 1
    /\ UNCHANGED <<otherVars, availRemotes, nextRemote, mpc, remoteAndSpace, selection>>

\* Lines 179-182: GetDriveQuota.
SelectFetch(r) ==
    /\ Alive
    /\ gpc[r].at = "fetch"
    /\ \/ \E v \in Spaces :
             /\ gpc' = [gpc EXCEPT ![r] = [at |-> "assign", remaining |-> v]]
             /\ UNCHANGED wgCount
       \/ /\ gpc' = [gpc EXCEPT ![r].at = "returned"]
          /\ wgCount' = wgCount - 1
    /\ UNCHANGED <<otherVars, availRemotes, nextRemote, mpc, remoteAndSpace, selection>>

\* Line 184: the goroutine enters the map assignment; no lock is taken.
\* When another goroutine is inside an assignment to the same map the Go
\* runtime may detect it and end the process ("concurrent map writes").
MapWriteBegin(r) ==
    /\ Alive
    /\ gpc[r].at = "assign"
    /\ gpc' = [gpc EXCEPT ![r].at = "writing"]
    /\ \/ UNCHANGED mpc
       \/ /\ \E o \in Remotes : o # r /\ gpc[o].at = "writing"
          /\ mpc' = "fatal"
    /\ UNCHANGED <<otherVars, availRemotes, nextRemote, wgCount, remoteAndSpace,
                   selection>>

\* Line 184: the assignment ends.  One that overlapped another goroutine's
\* may lose its entry.  Then the deferred wg.Done runs.
MapWriteEnd(r) ==
    /\ Alive
    /\ gpc[r].at = "writing"
    /\ \/ remoteAndSpace' = [remoteAndSpace EXCEPT ![r] = gpc[r].remaining]
       \/ /\ \E o \in Remotes : o # r /\ gpc[o].at = "writing"
          /\ UNCHANGED remoteAndSpace
    /\ gpc' = [gpc EXCEPT ![r].at = "returned"]
    /\ wgCount' = wgCount - 1
    /\ UNCHANGED <<otherVars, availRemotes, nextRemote, mpc, selection>>

\* Lines 190-204, after wg.Wait of line 188: the remote with the most free
\* space among the entries of the map, the first remote when no entry has
\* free space.
MostFree ==
    LET present == {r \in Remotes : remoteAndSpace[r] # Absent}
        best == {r \in present : \A o \in present : remoteAndSpace[o] <= remoteAndSpace[r]}
    IN IF present = {} THEN {[remote |-> 0, err |-> "all remote were not available"]}
       ELSE IF \A r \in present : remoteAndSpace[r] = 0 THEN {[remote |-> 1, err |-> "nil"]}
       ELSE {[remote |-> r, err |-> "nil"] : r \in best}

\* Lines 188-204.
SelectWait ==
    /\ mpc = "select"
    /\ nextRemote > availRemotes
    /\ wgCount = 0
    /\ selection' \in MostFree
    /\ mpc' = "returned"
    /\ UNCHANGED <<otherVars, availRemotes, nextRemote, gpc, wgCount, remoteAndSpace>>

NextSelect ==
    \/ SelectSpawn
    \/ SelectWait
    \/ \E r \in Remotes : SelectInitClient(r)
    \/ \E r \in Remotes : SelectFetch(r)
    \/ \E r \in Remotes : MapWriteBegin(r)
    \/ \E r \in Remotes : MapWriteEnd(r)

SpecSelect == InitSelect /\ [][NextSelect]_vars

\* ------------------------------------------------------------- vocabulary
Done == pc = "done"

RangeLen(r) == r[2] - r[1] + 1

RECURSIVE SumLens(_)
SumLens(rs) == IF rs = <<>> THEN 0 ELSE RangeLen(Head(rs)) + SumLens(Tail(rs))

\* The starts of the chunks of the file, stated without the code's loop.
FileStarts == {s \in 0..fileSize - 1 : s % chunkSize = 0}

SumAttempts(S) ==
    LET RECURSIVE Sum(_)
        Sum(T) == IF T = {} THEN 0
                  ELSE LET x == CHOOSE y \in T : TRUE IN attempts[x] + Sum(T \ {x})
    IN Sum(S)

\* The ranges the worker has derived so far whose PUT was accepted.
AckedRanges == SelectSeq(ranges, LAMBDA r : r[1] \in acked)

\* ------------------------------------------------------------------ claims

\* C1 (the half "otherwise Upload returns an error"): when Upload returns a
\* nil error, every chunk of the file was accepted by the server, that is,
\* the accepted chunk lengths sum to the file size, for every MaxRetries.
C1_SuccessOnlyIfAllAcked ==
    Done /\ result.err = "nil" => ackedBytes = fileSize

\* C2: Upload returns either a non-empty file ID with a nil error or an
\* empty file ID with an error, never another combination.
C2_IdXorError ==
    Done => \/ result.id # "" /\ result.err = "nil"
            \/ result.id = "" /\ result.err # "nil"

C2_Witness ==
    Done /\ result.id # "" /\ result.err = "nil" /\ fidCalled /\ Len(ranges) >= 2

\* The case C3 speaks of: the transfer is over, exactly one chunk attempt
\* ended in SessionExpired, it was the first attempt of its chunk, and no
\* other request or read failed.
C3_SingleExpiry ==
    /\ Done
    /\ nExpired = 1 /\ otherFaults = 0
    /\ soleExpired[2] = 0

C3_Conclusion ==
    LET k == soleExpired[1] IN
    /\ sessions = 2
    /\ k \in acked
    /\ attempts[k] <= maxRetries
    /\ \A s \in FileStarts \ {k} : attempts[s] <= 1

\* C3 as stated: a single SessionExpired on the first attempt of chunk k
\* gives exactly one session renewal, chunk k succeeds within MaxRetries
\* attempts, and no other chunk is sent more than once.
C3_SingleExpiryRenewsOnce ==
    C3_SingleExpiry => C3_Conclusion

\* C3 as amended: the same, provided MaxRetries is at least 2.
C3_SingleExpiryRenewsOnceIfRetryLeft ==
    C3_SingleExpiry /\ maxRetries >= 2 => C3_Conclusion

C3_Witness ==
    /\ C3_SingleExpiry /\ maxRetries >= 2
    /\ soleExpired[1] > 0
    /\ result.err = "nil"

\* C4: if some chunk has used up all MaxRetries attempts without an accepted
\* PUT, Upload returns an error and bytesUploaded is less than the file size.
C4_ExhaustedChunkFailsUpload ==
    Done /\ (\E i \in 1..Len(ranges) :
                /\ attempts[ranges[i][1]] = maxRetries
                /\ ranges[i][1] \notin acked)
    => result.err # "nil" /\ totalUploaded < fileSize

\* The errors recorded for chunks during the transfer, at the return.
RecordedErrs == result.cause \o errChan

\* A chunk failed: its read failed, or its last permitted PUT was refused.
ChunkFailed(s) ==
    \/ \E i \in 1..Len(RecordedErrs) :
          RecordedErrs[i].start = s /\ RecordedErrs[i].what = "read"
    \/ attempts[s] >= 1 /\ s \notin acked

\* C5: when every chunk succeeded and getFileID fails, Upload returns the
\* metadata-fetch error, not the transfer error; getFileID is called only
\* when no chunk error was recorded, so the metadata-fetch error is never
\* returned for a transfer in which a chunk failed.
C5_MetadataErrorOnlyAfterCleanTransfer ==
    Done =>
      /\ (fidCalled => RecordedErrs = <<>>)
      /\ (result.err = "failed to fetch file ID" =>
            fidCalled /\ \A s \in FileStarts : ~ChunkFailed(s))
      /\ (wpc = "exit" /\ (\A s \in FileStarts : s \in acked) /\ result.err # "nil" =>
            fidCalled /\ result.err = "failed to fetch file ID")
      /\ (result.err = "failed to upload file" =>
            ~fidCalled /\ \E s \in FileStarts : ChunkFailed(s))

C5_Witness ==
    /\ Done /\ result.err = "failed to fetch file ID"
    /\ Len(ranges) >= 2
    /\ \A s \in FileStarts : s \in acked

\* C6: for a non-empty file the ranges Upload derives start at 0, are in
\* ascending order, contiguous and non-overlapping; once all are derived they
\* end at fileSize-1, their lengths sum to fileSize and there are
\* ceil(fileSize/chunkSize) of them; a file of 10000000 bytes in chunks of
\* 4000000 gives [0,3999999], [4000000,7999999], [8000000,9999999].
C6_RangesPartitionFile ==
    /\ PlannedRanges(10000000, 4000000) =
          <<<<0, 3999999>>, <<4000000, 7999999>>, <<8000000, 9999999>>>>
    /\ wpc = "exit" => ranges = PlannedRanges(fileSize, chunkSize)
    /\ \A i \in 1..Len(ranges) :
          /\ ranges[i][1] <= ranges[i][2]
          /\ ranges[i][1] = (i - 1) * chunkSize
          /\ i > 1 => ranges[i][1] = ranges[i - 1][2] + 1
    /\ wpc = "exit" /\ fileSize > 0 =>
          /\ Len(ranges) >= 1
          /\ ranges[1][1] = 0
          /\ ranges[Len(ranges)][2] = fileSize - 1
          /\ SumLens(ranges) = fileSize
          /\ Len(ranges) * chunkSize >= fileSize
          /\ (Len(ranges) - 1) * chunkSize < fileSize
          /\ Len(ranges) = numChunks

C6_Witness ==
    /\ wpc = "exit" /\ Len(ranges) = 2
    /\ RangeLen(ranges[1]) = 2 /\ RangeLen(ranges[2]) = 1

\* C7: uploadChunk sends a request exactly when 0 <= start <= end < totalSize
\* and len(chunk) = end-start+1; otherwise it returns a local error.
C7_InvalidCallSendsNothing ==
    call.returned =>
      LET bad == \/ call.start < 0
                 \/ call.start > call.end
                 \/ call.end >= call.totalSize
                 \/ call.chunkLen # call.end - call.start + 1
      IN /\ bad => /\ ~call.sent /\ ~call.ok
                   /\ call.err.tag \in {"invalid chunk range", "chunk size mismatch"}
         /\ call.sent => ~bad

C7_Witness ==
    /\ call.returned /\ ~call.sent
    /\ 0 <= call.start /\ call.start <= call.end /\ call.end < call.totalSize
    /\ call.chunkLen # call.end - call.start + 1

C9_AllFirstAttemptsSucceed ==
    /\ wpc = "exit"
    /\ \A s \in FileStarts : s \in firstTryOK
    => /\ SumAttempts(FileStarts) = Len(ranges)
       /\ \A s \in FileStarts : attempts[s] = 1
       /\ sessions = 1
       /\ ~slept
       /\ totalUploaded = fileSize

C9_Witness ==
    /\ wpc = "exit" /\ Len(ranges) = 3
    /\ \A s \in FileStarts : s \in firstTryOK
    /\ totalUploaded = fileSize

\* C10: the progress callback runs only while the worker holds the progress
\* lock, after the counter was increased under the same lock; the values it
\* receives never decrease, and the i-th value is the sum of the lengths of
\* the first i chunks that succeeded.
C10_ProgressSerialAndCumulative ==
    /\ inSink => /\ progressMu = "worker" /\ wpc = "callback"
                 /\ sinkLog[Len(sinkLog)] = totalUploaded
                 /\ totalUploaded = ackedBytes
    /\ wpc \in {"update", "callback", "unlock"} => progressMu = "worker"
    /\ Len(sinkLog) <= Len(AckedRanges)
    /\ \A i \in 1..Len(sinkLog) :
          /\ sinkLog[i] = SumLens(SubSeq(AckedRanges, 1, i))
          /\ i > 1 => sinkLog[i - 1] <= sinkLog[i]

C10_Witness ==
    inSink /\ Len(sinkLog) = 2 /\ sinkLog[2] = 3

\* C11: for every response that is not 2xx createUploadSession returns an
\* error that carries the status code and the body, and no upload URL; when
\* the first session cannot be created Upload returns an error, and no PUT
\* and no getFileID request is made.
C11_SessionFailureStopsUpload ==
    /\ firstSession.called /\ ~firstSession.resp.neterr
       /\ firstSession.resp.status \notin 200..299
       => /\ ~firstSession.ret.ok /\ ~firstSession.ret.url
          /\ firstSession.ret.err.status = firstSession.resp.status
          /\ firstSession.ret.err.text = firstSession.resp.body
    /\ firstSession.called /\ ~firstSession.ret.ok
       => /\ Done /\ result.err = "failed to create upload session" /\ result.id = ""
          /\ sessions = 0 /\ uploadURL = 0
          /\ \A s \in 0..MaxFileSize : attempts[s] = 0
          /\ ~fidCalled /\ wpc = "none"

C11_Witness ==
    /\ Done /\ firstSession.called
    /\ firstSession.resp.status = 404 /\ firstSession.resp.body = {"invalidRange"}
    /\ result.err = "failed to create upload session"

\* C12: every session request of one Upload call, the first and every
\* renewal, asks for conflict behaviour "rename", and all ask for the same.
C12_SessionsCreatedWithRename ==
    /\ policies \subseteq {"rename"}
    /\ Cardinality(policies) <= 1

\* The positions in vlog of the calls of GetQuickXorHash.
Fetches == {n \in 1..Len(vlog) : vlog[n] \in {"fetched", "fetch failed"}}

\* The remote hash that a call of GetQuickXorHash returned, "" if none did.
FetchedHash == IF \E n \in Fetches : vlog[n] = "fetched" THEN fileHash ELSE ""

\* The reports of verifyFileIntegrity that are warnings without a verdict.
Warnings == {"warning: could not verify", "warning: could not open local file",
             "warning: could not calculate file hash"}

\* C13: verifyFileIntegrity reports a match exactly when a remote hash was
\* fetched and equals the local hash, and a mismatch only when a remote hash
\* was fetched and differs from it, for every hashRetries; after the
\* comparison nothing is fetched or compared again.
C13_MatchIffFetchedAndEqual ==
    /\ vpc = "done" =>
          /\ report = "match" <=>
                FetchedHash # "" /\ localHash # "" /\ FetchedHash = localHash
          /\ report = "mismatch" =>
                FetchedHash # "" /\ localHash # "" /\ FetchedHash # localHash
    /\ \A n \in 1..Len(vlog) : vlog[n] = "compared" => n = Len(vlog)

\* C14: GetQuickXorHash is called at most hashRetries times and not again
\* after a call succeeded; a failed call that is followed by another call
\* is followed by a sleep first; when all hashRetries calls failed a warning
\* is reported and no comparison is made.
C14_FetchBoundedThenWarning ==
    /\ Cardinality(Fetches) <= hashRetries
    /\ \A n \in Fetches : vlog[n] = "fetched" => \A m \in Fetches : m <= n
    /\ \A n \in Fetches :
          (\E m \in Fetches : m > n) => vlog[n] = "fetch failed" /\ vlog[n + 1] = "sleep"
    /\ vpc = "done"
       /\ Cardinality({n \in Fetches : vlog[n] = "fetch failed"}) = hashRetries
       => /\ report \in Warnings
          /\ \A n \in 1..Len(vlog) : vlog[n] # "compared"

\* A step of the worker that sends a PUT for the chunk in hand.
PutSent == attempts' # attempts

\* A step of the worker that requests a new upload session.
RenewalRequested == since'.renewal # since.renewal /\ since'.renewal # "none"

\* C15: when an attempt ends in RangeNotSatisfiable or SessionExpired and the
\* chunk has attempts left, the next PUT of that chunk goes to a session
\* created after that failure (sessions are numbered in order of creation),
\* whatever the outcome of the session request.
C15_RetryAfterExpiryUsesNewSession ==
    [][PutSent /\ since.outcome \in {"RangeNotSatisfiable", "SessionExpired"}
          => uploadURL > since.url]_vars

\* C16: a session renewal is requested only after an attempt that ended in
\* RangeNotSatisfiable or SessionExpired; after an OtherFailure, whatever its
\* response body contains, the retry goes to the same session URL.
C16_RenewalOnlyAfterRangeOrExpiry ==
    [][/\ RenewalRequested =>
             since.outcome \in {"RangeNotSatisfiable", "SessionExpired"}
       /\ PutSent /\ since.outcome = "OtherFailure" =>
             since.renewal = "none" /\ uploadURL = since.url]_vars

\* C17: a chunk whose read failed is tried again, up to MaxRetries tries in
\* all, before an error is recorded for it, and the chunks after it are
\* still processed.
C17_ReadErrorRetried ==
    /\ \A s \in readFailed : reads[s] + attempts[s] >= maxRetries
    /\ wpc = "exit" => Len(ranges) = numChunks

\* C18: between two consecutive PUTs of the same chunk a RetryDelay sleep
\* takes place, on every path through the retry loop.
C18_SleepBetweenAttempts ==
    [][PutSent /\ since.outcome # "none" => since.slept]_vars

\* The number of errors recorded for the chunk starting at s.
ErrCount(s) ==
    Cardinality({i \in 1..Len(RecordedErrs) : RecordedErrs[i].start = s})

\* The worker has taken the chunk starting at s and is done with it.
Processed(s) ==
    /\ \E i \in 1..Len(ranges) : ranges[i][1] = s
    /\ ~(start = s /\ wpc \in {"read", "put", "renew", "sleep",
                                "lock", "update", "callback", "unlock"})

\* C19: no chunk is PUT more than MaxRetries times; a chunk whose MaxRetries
\* attempts all failed has exactly one error recorded; a chunk that
\* succeeded has none and is not attempted again.
C19_AttemptsBounded ==
    /\ \A s \in 0..MaxFileSize :
          /\ attempts[s] <= maxRetries
          /\ Processed(s) /\ attempts[s] = maxRetries /\ s \notin acked =>
                ErrCount(s) = 1
          /\ s \in acked => ErrCount(s) = 0
    /\ ackedBytes = SumLens(AckedRanges)
    /\ wpc = "put" => start \notin acked

\* The chunks that failed terminally: the read failed, or all of the
\* MaxRetries PUTs were refused.
FailedStarts ==
    {s \in FileStarts :
        /\ Processed(s)
        /\ \/ s \in readFailed
           \/ maxRetries > 0 /\ attempts[s] = maxRetries /\ s \notin acked}

\* C20: when chunks failed terminally, the error Upload returns is that of
\* the earliest failed chunk in processing order, which is ascending order
\* of start; the errors recorded later stay behind it.
C20_FirstErrorReturned ==
    Done /\ FailedStarts # {} =>
      /\ result.err = "failed to upload file"
      /\ Len(result.cause) = 1
      /\ \A s \in FailedStarts : result.cause[1].start <= s
      /\ result.cause[1].start \in FailedStarts
      /\ \A i \in 1..Len(errChan) : errChan[i].start > result.cause[1].start

C20_Witness ==
    /\ Done /\ Cardinality(FailedStarts) = 2 /\ 0 \notin FailedStarts
    /\ result.cause[1].what = "upload"

\* C21: every PUT goes to the session created last: once a renewal has
\* replaced the upload URL, no PUT of the chunk in hand or of a later chunk
\* is sent to an earlier session (sessions are numbered in order of
\* creation).
C21_PutsUseLatestSession ==
    [][PutSent => uploadURL = sessions /\ uploadURL' = uploadURL]_vars

\* Chunk 0 was refused, the session renewed, chunk 0 accepted and the next
\* chunk sent.
C21_Witness ==
    /\ sessions = 2 /\ attempts[0] = 2 /\ 0 \in acked
    /\ chunkSize < fileSize /\ attempts[chunkSize] >= 1

\* C22: when Upload returns success, every accepted chunk was accepted by
\* one and the same session, the one current at the end; and at no time does
\* totalUploaded count a chunk that only a session replaced since has
\* accepted.
C22_OneSessionHoldsTheFile ==
    /\ Done /\ result.err = "nil" => \A s \in acked : ackedURL[s] = uploadURL
    /\ totalUploaded > 0 => \A s \in acked : ackedURL[s] = uploadURL

\* The values of params.ParallelChunks looked at.
ParallelValues == 0..4

\* The chunk starting at s was accepted, or an error is recorded for it.
Resolved(s) == s \in acked \/ ErrCount(s) >= 1

C24_EmptyFile ==
    fileSize = 0 =>
      /\ PlannedRanges(fileSize, chunkSize) = <<>>
      /\ chunkChan = <<>> /\ ranges = <<>>
      /\ \A s \in 0..MaxFileSize : attempts[s] = 0 /\ reads[s] = 0
      /\ sinkLog = <<>> /\ totalUploaded = 0
      /\ errChan = <<>> /\ result.cause = <<>>
      /\ Done /\ wpc # "none" => fidCalled /\ result.err # "failed to upload file"

\* An empty file, a callback given: Upload returned the file ID.
C24_Witness ==
    fileSize = 0 /\ hasCallback /\ Done /\ fidCalled /\ result.err = "nil"

\* The producer is about to send on chunkChan and the buffer is full.
ProducerBlocked ==
    pc = "produce" /\ MoreChunks(prodStart, fileSize) /\ ~(Len(chunkChan) < numChunks)

\* What keeps Upload from blocking: neither send ever finds its channel
\* full, at most one error is recorded per chunk, and the PUTs sent are at
\* most numChunks * MaxRetries.
C25_NeverBlocked ==
    /\ ~ProducerBlocked
    /\ wpc # "blocked"
    /\ \A s \in 0..MaxFileSize : ErrCount(s) <= 1
    /\ Len(chunkChan) <= numChunks /\ Len(errChan) <= numChunks
    /\ wpc # "none" => SumAttempts(0..MaxFileSize) <= numChunks * maxRetries

\* C25: Upload always terminates, and on the way neither goroutine blocks
\* on a channel.
C25_UploadTerminates == []C25_NeverBlocked /\ <>Done

\* Upload returned after every chunk used up its attempts: errChan was
\* filled to its capacity.
C25_Witness ==
    /\ Done /\ numChunks >= 2 /\ maxRetries = 2
    /\ Len(RecordedErrs) = numChunks
    /\ SumAttempts(0..MaxFileSize) = numChunks * maxRetries

\* C26: every call of uploadChunk that Upload makes has a range inside the
\* file, a chunk of the range's length and the file size as total, so the
\* validation at the head of uploadChunk lets it pass whatever the server
\* answers: the request is sent.
C26_UploadCallsValid ==
    /\ \A i \in 1..Len(ranges) :
          0 <= ranges[i][1] /\ ranges[i][1] <= ranges[i][2] /\ ranges[i][2] < fileSize
    /\ wpc = "put" =>
          /\ fileSize > 0
          /\ 0 <= start /\ start <= end /\ end < fileSize
          /\ ActualChunkSize(start, end) = end - start + 1
          /\ \A resp \in HttpResponses :
                uploadChunk(ActualChunkSize(start, end), start, end, fileSize, resp).sent

\* The last chunk of the file, shorter than chunkSize, is about to be sent
\* a second time.
C26_Witness ==
    /\ wpc = "put" /\ start > 0 /\ end = fileSize - 1
    /\ end - start + 1 < chunkSize /\ attempts[start] = 1

\* The accepted chunk in hand whose length is not yet added to
\* totalUploaded.
Uncounted ==
    IF wpc \in {"lock", "update"} THEN end - start + 1 ELSE 0

\* C27: totalUploaded never exceeds the file size and never decreases, and
\* it is the sum of the lengths of the accepted chunks, each taken once
\* however many attempts and renewals the chunk needed.
C27_CountedOnce ==
    /\ [](/\ totalUploaded <= fileSize
          /\ totalUploaded + Uncounted = SumLens(AckedRanges)
          /\ \A i, j \in 1..Len(ranges) : ranges[i][1] = ranges[j][1] => i = j)
    /\ [][totalUploaded' >= totalUploaded]_vars

\* The whole file is counted after a chunk needed two attempts and a new
\* session.
C27_Witness ==
    /\ totalUploaded = fileSize /\ fileSize = MaxFileSize /\ sessions = 2
    /\ \E s \in acked : attempts[s] = 2

\* The worker has dealt with the chunk starting at s: it read it and, when
\* the read succeeded and MaxRetries allows a PUT at all, sent it.
Attempted(s) ==
    /\ Processed(s)
    /\ reads[s] >= 1
    /\ maxRetries > 0 /\ s \notin readFailed => attempts[s] >= 1

AllAttempted == \A s \in FileStarts : Attempted(s)

C29_QuotaWaitCompletes == <>(mpc = "returned")

\* The goroutines inside the assignment to remoteAndSpace.
Writing == {r \in Remotes : gpc[r].at = "writing"}

\* C30: no two goroutines are inside the assignment to remoteAndSpace at
\* the same time.
C30_MapWritesExclusive == Cardinality(Writing) <= 1

====
